---- MODULE Spec2Model ----
(***************************************************************************)
(* Model of the RAG Telegram bot: the feedback ledger of TelegramRAGBot    *)
(* (src/src/telegram_rag_bot.py), the answer generator of LLMPipeline      *)
(* (src/src/llm_pipeline.py) and the retrieval pipeline PDFRAGPipeline     *)
(* (src/src/pdf_rag_pipeline.py).                                          *)
(*                                                                         *)
(* Texts are sequences of tokens: a token is a word (a string without      *)
(* whitespace) or one whitespace character (" ", "\n", "\f").             *)
(***************************************************************************)
EXTENDS Integers, Sequences, FiniteSets, TLC

VARIABLES
    stats,          \* self.stats of the bot: [total, correct, incorrect]
    qa_log,         \* self.qa_log of the bot: sequence of QA records
    stats_file,     \* durable artifact at stats_path
    qa_log_file,    \* durable artifact at qa_log_path
    keyboards,      \* Telegram: ids of the answer messages that still show the inline keyboard
    callbacks,      \* Telegram: callback queries pressed and not yet handled (in flight)
    msg_count,      \* Telegram: number of answer messages sent with a keyboard
    origin,         \* per record of qa_log: id of the answer message it was created for (0: loaded from disk)
    last,           \* what the last handler did and replied
    dispatcher,     \* the thread that runs the handlers: "idle" between two updates, "hung" inside a call that never returns
    pdf,            \* the document at self.pdf_path: the text of each physical page
    chunk_size,     \* self.chunk_size of the retrieval pipeline
    overlap,        \* self.overlap of the retrieval pipeline
    pages,          \* self.pages of the retrieval pipeline
    chunks,         \* self.chunks of the retrieval pipeline
    bm25,           \* self.bm25 of the retrieval pipeline
    split_pc,       \* split_pages: "idle", or "loop" while it runs
    page_index,     \* split_pages: position of the for loop in self.pages
    start,          \* split_pages: start of the while loop
    all_chunks,     \* split_pages: all_chunks
    call,           \* the call of the retrieval pipeline in progress (the outermost frame)
    returned        \* what the last call of the retrieval pipeline returned or raised

ledger_vars == <<stats, qa_log, stats_file, qa_log_file, keyboards, callbacks, msg_count, origin, last,
                 dispatcher>>
pipe_vars == <<pdf, chunk_size, overlap, pages, chunks, bm25, split_pc, page_index, start, all_chunks,
               call, returned>>
vars == <<stats, qa_log, stats_file, qa_log_file, keyboards, callbacks, msg_count, origin, last,
          dispatcher,
          pdf, chunk_size, overlap, pages, chunks, bm25, split_pc, page_index, start, all_chunks,
          call, returned>>

----------------------------------------------------------------------------
(* Bounds of the model *)

\* answer messages sent over the whole run (all processes)
MaxAnswers == 2
\* cap on the feedback events: callback queries in flight plus
\* stats.correct + stats.incorrect
MaxFeedback == 2
\* physical pages of a document
MaxPages == 3
\* largest chunk_size and overlap a pipeline is constructed with
MaxChunkSize == 3
\* caps on a split_pages loop that does not end: chunks collected, and how far
\* start may fall below zero
MaxChunks == 8
MaxBack == 2
\* largest top_k of a search_query call
MaxTopK == 2

----------------------------------------------------------------------------
(* Python values *)

\* Python's None
None == "None"

\* a raised exception / a returned value
Raised == [raised |-> TRUE]
Return(v) == [raised |-> FALSE, value |-> v]

IsSpace(tok) == tok \in {" ", "\n", "\f"}

RECURSIVE lstrip(_)
lstrip(text) ==
    IF text # <<>> /\ IsSpace(Head(text)) THEN lstrip(Tail(text)) ELSE text

RECURSIVE rstrip(_)
rstrip(text) ==
    IF text # <<>> /\ IsSpace(text[Len(text)])
    THEN rstrip(SubSeq(text, 1, Len(text) - 1)) ELSE text

\* str.strip()
strip(text) == rstrip(lstrip(text))

\* str.split(): the words of the text
split(text) == SelectSeq(text, LAMBDA tok : ~IsSpace(tok))

\* an attribute that holds None / an object
NoneObj == [is_none |-> TRUE]
Obj(v) == [is_none |-> FALSE, v |-> v]

----------------------------------------------------------------------------
(* JSON documents, as json.dump writes them and json.load reads them *)

json_null == [t |-> "null"]
json_string(s) == [t |-> "string", v |-> s]
json_number(n) == [t |-> "number", v |-> n]

\* json.dump of self.stats (a dict of int counters)
json_dump_stats(s) ==
    [t |-> "object", m |-> [k \in DOMAIN s |-> json_number(s[k])]]

\* a variant that leaves the feedback out of the written record
json_dump_record_without_feedback(r) ==
    [t |-> "object",
     m |-> [query |-> json_string(r.query),
            retrieval_context |-> json_string(r.retrieval_context),
            retrieved_page |-> json_number(r.retrieved_page),
            generated_answer |-> json_string(r.generated_answer)]]

\* json.dump of one QA record (feedback is None or a str)
json_dump_record(r) ==
    [t |-> "object",
     m |-> [query |-> json_string(r.query),
            retrieval_context |-> json_string(r.retrieval_context),
            retrieved_page |-> json_number(r.retrieved_page),
            generated_answer |-> json_string(r.generated_answer),
            feedback |-> IF r.feedback = None THEN json_null
                         ELSE json_string(r.feedback)]]

\* json.dump of self.qa_log (a list of dicts)
json_dump_qa_log(log) ==
    [t |-> "array", a |-> [i \in 1..Len(log) |-> json_dump_record(log[i])]]

\* json.load: the Python value of a JSON document
RECURSIVE json_load(_)
json_load(doc) ==
    CASE doc.t = "null" -> None
      [] doc.t = "string" -> doc.v
      [] doc.t = "number" -> doc.v
      [] doc.t = "array" -> [i \in DOMAIN doc.a |-> json_load(doc.a[i])]
      [] doc.t = "object" -> [k \in DOMAIN doc.m |-> json_load(doc.m[k])]

----------------------------------------------------------------------------
(* Files *)

Absent == [st |-> "absent"]
Partial == [st |-> "partial"]
Complete(doc) == [st |-> "complete", doc |-> doc]

\* outcomes of writing a file: open(path, "w") fails (the file is untouched),
\* or the write fails after open truncated it, or it succeeds
WriteOutcomes == {"ok", "open_fails", "write_fails"}
\* outcomes of reading a file the OS can offer
ReadOutcomes == {"ok", "open_fails"}

\* with open(path, "w") as f: json.dump(obj, f)
write_json(file, doc, io) ==
    CASE io = "ok" -> [raised |-> FALSE, file |-> Complete(doc)]
      [] io = "open_fails" -> [raised |-> TRUE, file |-> file]
      [] io = "write_fails" -> [raised |-> TRUE, file |-> Partial]

\* with open(path, "r") as f: json.load(f)
read_json(file, io) ==
    IF io = "ok" /\ file.st = "complete" THEN Return(json_load(file.doc))
    ELSE Raised

\* what save_stats / save_qa_log / load_stats / load_qa_log log for an outcome
io_log(io, file_readable) == IF io = "ok" /\ file_readable THEN "info" ELSE "error"

\* TelegramRAGBot.save_stats: the file afterwards (exceptions are logged only)
save_stats(self_stats, file, io) ==
    write_json(file, json_dump_stats(self_stats), io).file

\* TelegramRAGBot.save_qa_log: the file afterwards (exceptions are logged only)
save_qa_log(self_qa_log, file, io) ==
    write_json(file, json_dump_qa_log(self_qa_log), io).file

\* TelegramRAGBot.load_stats: self.stats afterwards
load_stats(self_stats, file, io) ==
    LET r == read_json(file, io) IN IF r.raised THEN self_stats ELSE r.value

\* TelegramRAGBot.load_qa_log: self.qa_log afterwards
load_qa_log(self_qa_log, file, io) ==
    LET r == read_json(file, io) IN IF r.raised THEN self_qa_log ELSE r.value

----------------------------------------------------------------------------
(* Retrieval: PDFRAGPipeline.build_index and search_query *)

\* rank_bm25.BM25Okapi(tokenized_chunks): the average document length divides
\* by the corpus size, so an empty corpus raises ZeroDivisionError
BM25Okapi(tokenized_chunks) ==
    IF Len(tokenized_chunks) = 0 THEN Raised
    ELSE Return(Obj([corpus |-> tokenized_chunks]))

\* bm25.corpus_size: the number of chunks an index was built over (0: no index)
corpus_size(self_bm25) ==
    IF self_bm25.is_none THEN 0 ELSE Len(self_bm25.v.corpus)

\* PDFRAGPipeline.build_index on a pipeline whose chunks are set
build_index(self_chunks) ==
    BM25Okapi([i \in 1..Len(self_chunks.v) |-> split(self_chunks.v[i].chunk)])

\* a variant of the sort that puts the later of two equal scores first
RECURSIVE sorted_reverse_later_first(_, _)
sorted_reverse_later_first(indices, scores) ==
    IF indices = {} THEN <<>>
    ELSE LET first == CHOOSE i \in indices : \A j \in indices :
                          \/ scores[i] > scores[j]
                          \/ scores[i] = scores[j] /\ i >= j
         IN <<first>> \o sorted_reverse_later_first(indices \ {first}, scores)

\* sorted(range(len(scores)), key=lambda i: scores[i], reverse=True):
\* descending and stable, so equal scores keep ascending index order
RECURSIVE sorted_reverse(_, _)
sorted_reverse(indices, scores) ==
    IF indices = {} THEN <<>>
    ELSE LET first == CHOOSE i \in indices : \A j \in indices :
                          \/ scores[i] > scores[j]
                          \/ scores[i] = scores[j] /\ i <= j
         IN <<first>> \o sorted_reverse(indices \ {first}, scores)

\* no call of the retrieval pipeline is in progress
NoCall == [op |-> "none"]

\* the outcome of a call that raised, or that returned nothing of interest
Outcome(op, raised) == [op |-> op, raised |-> raised]

\* seq[:k]
slice_to(seq, k) ==
    IF k >= 0 THEN SubSeq(seq, 1, IF k < Len(seq) THEN k ELSE Len(seq))
    ELSE SubSeq(seq, 1, Len(seq) + k)

\* PDFRAGPipeline.search_query on a pipeline whose chunks are set; scores is
\* what bm25.get_scores returns (one score per indexed chunk).
\* The result carries self.bm25 as the call leaves it.
search_query(self_chunks, self_bm25, query, top_k, scores) ==
    LET built == IF self_bm25.is_none THEN build_index(self_chunks)
                 ELSE Return(self_bm25)
    IN IF built.raised THEN [raised |-> TRUE, bm25 |-> self_bm25]
       ELSE LET n == Len(built.value.v.corpus)
                top_indices == slice_to(sorted_reverse(1..n, scores), top_k)
            IN IF \E k \in 1..Len(top_indices) : top_indices[k] > Len(self_chunks.v)
               THEN [raised |-> TRUE, bm25 |-> built.value]
               ELSE [raised |-> FALSE, bm25 |-> built.value,
                     top_indices |-> top_indices,
                     value |-> [k \in 1..Len(top_indices) |-> self_chunks.v[top_indices[k]]]]

----------------------------------------------------------------------------
(* Generation: LLMPipeline.generate_answer *)

\* the prompt handed to the model
prompt(query, context) ==
    [instruction |-> "answer from the context, else say I don't know",
     context |-> context, question |-> query]

\* model_out is what self.model_pipeline(prompt, ...) does: it raises, or it
\* returns a list whose first element should be a dict with "generated_text"
generate_answer(query, context, model_out) ==
    IF model_out.raised THEN Raised
    ELSE LET result == model_out.value
         IN IF Len(result) = 0 THEN Raised
            ELSE IF "generated_text" \notin DOMAIN result[1] THEN Raised
            ELSE Return(strip(result[1].generated_text))


----------------------------------------------------------------------------
(* Inputs *)

\* user queries
Queries == {<<"alpha">>}

\* the chunk corpus a bot is started over: the one chunk of page 3
Corpus ==
    <<[page |-> 3, chunk |-> <<"alpha", " ", "beta">>]>>

\* scores bm25.get_scores can give a chunk
ScoreValues == {0, 1}

\* what the text-generation model can do with a prompt
ModelOutputs ==
    { Raised,
      Return(<<>>),
      Return(<<[error |-> <<"overloaded">>]>>),
      Return(<<[generated_text |-> <<" ", "answer", "\n">>]>>) }

\* number of chunks the index of the pipeline covers once search_query built it
indexed_size(self_chunks, self_bm25) ==
    IF self_bm25.is_none THEN Len(self_chunks.v) ELSE Len(self_bm25.v.corpus)

----------------------------------------------------------------------------
(* The bot: TelegramRAGBot *)

\* self.stats after construction
InitStats == [total |-> 0, correct |-> 0, incorrect |-> 0]

\* an event: the handler that ran, the reply it sent, the answer message it
\* concerns (0: none) and the lines it logged
Event(op, reply, msg, log) == [op |-> op, reply |-> reply, msg |-> msg, log |-> log]

\* self.stats["total"] += 1
count_answer(self_stats) == [self_stats EXCEPT !.total = @ + 1]

\* the record answer_query appends
qa_record(user_query, context_text, retrieved_page, answer) ==
    [query |-> user_query, retrieval_context |-> context_text,
     retrieved_page |-> retrieved_page, generated_answer |-> answer,
     feedback |-> None]

\* the inline keyboard of an answer: the callback_data of its row of buttons
keyboard == <<<<"feedback_yes", "feedback_no">>>>

\* the event of an answer_query: also the prompt the text-generation model was
\* called with (None: it was not called) and the reply_markup of the reply
AnswerEvent(reply, msg, log, llm_prompt, reply_markup) ==
    [op |-> "answer_query", reply |-> reply, msg |-> msg, log |-> log,
     prompt |-> llm_prompt, reply_markup |-> reply_markup]

\* the try block of answer_query up to the generated answer: what it raises
\* or the record it is about to log, and the prompt the model was called with
answer_attempt(self_chunks, self_bm25, user_query, scores, model_out) ==
    LET sr == search_query(self_chunks, self_bm25, user_query, 1, scores)
    IN IF sr.raised \/ Len(sr.value) = 0
       THEN [raised |-> TRUE, log |-> "retrieval", bm25 |-> sr.bm25, prompt |-> NoneObj]
       ELSE LET retrieval_result == sr.value[1]
                llm_prompt == Obj(prompt(user_query, retrieval_result.chunk))
                gen == generate_answer(user_query, retrieval_result.chunk, model_out)
            IN IF gen.raised
               THEN [raised |-> TRUE, log |-> "generation", bm25 |-> sr.bm25,
                     prompt |-> llm_prompt]
               ELSE [raised |-> FALSE, log |-> "none", bm25 |-> sr.bm25,
                     prompt |-> llm_prompt,
                     record |-> qa_record(user_query, retrieval_result.chunk,
                                          retrieval_result.page, gen.value)]

\* a variant that counts the query before its answer exists
stats_after_answer_counting_first(self_stats, attempt) == count_answer(self_stats)

\* self.stats after answer_query
stats_after_answer(self_stats, attempt) ==
    IF attempt.raised THEN self_stats ELSE count_answer(self_stats)

\* self.qa_log after answer_query
qa_log_after_answer(self_qa_log, attempt) ==
    IF attempt.raised THEN self_qa_log ELSE Append(self_qa_log, attempt.record)

\* TelegramRAGBot.answer_query (message handler)
answer_query(user_query, scores, model_out) ==
    /\ dispatcher = "idle"
    /\ ~chunks.is_none
    /\ msg_count < MaxAnswers
    /\ LET attempt == answer_attempt(chunks, bm25, user_query, scores, model_out)
           id == msg_count + 1
       IN /\ bm25' = attempt.bm25
          /\ stats' = stats_after_answer(stats, attempt)
          /\ qa_log' = qa_log_after_answer(qa_log, attempt)
          /\ IF attempt.raised
             THEN /\ last' = AnswerEvent("error", 0, <<attempt.log>>, attempt.prompt, NoneObj)
                  /\ UNCHANGED <<origin, msg_count, keyboards>>
             ELSE /\ last' = AnswerEvent("answer", id, <<>>, attempt.prompt, Obj(keyboard))
                  /\ origin' = Append(origin, id)
                  /\ msg_count' = id
                  /\ keyboards' = keyboards \cup {id}
    /\ UNCHANGED <<stats_file, qa_log_file, callbacks, dispatcher>>
    /\ UNCHANGED <<pdf, chunk_size, overlap, pages, chunks, split_pc, page_index, start, all_chunks,
                   call, returned>>

\* TelegramRAGBot.answer_query whose call of the text-generation model never
\* returns: generate_answer passes no timeout and the handler runs in the
\* dispatcher thread, which stays inside the call
answer_query_hangs(user_query, scores) ==
    /\ dispatcher = "idle"
    /\ ~chunks.is_none
    /\ LET sr == search_query(chunks, bm25, user_query, 1, scores)
       IN /\ ~sr.raised
          /\ Len(sr.value) > 0
          /\ bm25' = sr.bm25
          /\ last' = AnswerEvent("none", 0, <<>>,
                                 Obj(prompt(user_query, sr.value[1].chunk)), NoneObj)
    /\ dispatcher' = "hung"
    /\ UNCHANGED <<stats, qa_log, stats_file, qa_log_file, keyboards, callbacks, msg_count, origin>>
    /\ UNCHANGED <<pdf, chunk_size, overlap, pages, chunks, split_pc, page_index, start, all_chunks,
                   call, returned>>

\* a user presses a button of the inline keyboard under answer message m:
\* a callback query for m is in flight (its data is read when it is handled)
Press(m) ==
    /\ m \in keyboards
    /\ Len(callbacks) + stats.correct + stats.incorrect < MaxFeedback
    /\ callbacks' = Append(callbacks, m)
    /\ last' = Event("press", "none", 0, <<>>)
    /\ UNCHANGED <<stats, qa_log, stats_file, qa_log_file, keyboards, msg_count, origin, dispatcher>>
    /\ UNCHANGED pipe_vars

\* feedback_callback, the counters: one of them is incremented
count_feedback(self_stats, feedback) ==
    IF feedback = "feedback_yes"
    THEN [self_stats EXCEPT !.correct = @ + 1]
    ELSE [self_stats EXCEPT !.incorrect = @ + 1]

\* feedback_callback, feedback_value
feedback_value(feedback) == IF feedback = "feedback_yes" THEN "yes" ELSE "no"

\* a variant without the "feedback is None" test
set_feedback_unguarded(self_qa_log, value) ==
    IF Len(self_qa_log) > 0
    THEN [self_qa_log EXCEPT ![Len(self_qa_log)].feedback = value]
    ELSE self_qa_log

\* feedback_callback, the log: the last record takes the value if it has none
set_feedback(self_qa_log, value) ==
    IF Len(self_qa_log) > 0 /\ self_qa_log[Len(self_qa_log)].feedback = None
    THEN [self_qa_log EXCEPT ![Len(self_qa_log)].feedback = value]
    ELSE self_qa_log

\* feedback_callback, the reply
feedback_response(feedback) ==
    IF feedback = "feedback_yes" THEN "thanks_correct" ELSE "thanks_noted"

\* TelegramRAGBot.feedback_callback (callback query handler) on the oldest
\* callback query in flight, whose data is feedback. Telegram refuses
\* edit_message_reply_markup on a message whose keyboard is already gone, and
\* the reply is then not sent.
feedback_callback(feedback, io_stats, io_qa) ==
    /\ dispatcher = "idle"
    /\ Len(callbacks) > 0
    /\ stats.correct + stats.incorrect < MaxFeedback
    /\ LET query == [msg |-> Head(callbacks), data |-> feedback]
       IN /\ stats' = count_feedback(stats, feedback)
          /\ qa_log' = set_feedback(qa_log, feedback_value(feedback))
          /\ stats_file' = save_stats(stats', stats_file, io_stats)
          /\ qa_log_file' = save_qa_log(qa_log', qa_log_file, io_qa)
          /\ keyboards' = keyboards \ {query.msg}
          /\ last' = Event("feedback_callback",
                           IF query.msg \in keyboards THEN feedback_response(feedback)
                           ELSE "none",
                           query.msg,
                           <<io_log(io_stats, TRUE), io_log(io_qa, TRUE)>>)
    /\ callbacks' = Tail(callbacks)
    /\ UNCHANGED <<msg_count, origin, dispatcher>>
    /\ UNCHANGED pipe_vars


\* TelegramRAGBot.start (/start)
start_handler ==
    /\ dispatcher = "idle"
    /\ last' = Event("start", "greeting", 0, <<>>)
    /\ UNCHANGED <<stats, qa_log, stats_file, qa_log_file, keyboards, callbacks, msg_count, origin, dispatcher>>
    /\ UNCHANGED pipe_vars

\* a variant of /stats that also writes the counters to stats_path
stats_command_saving ==
    /\ dispatcher = "idle"
    /\ last' = Event("stats_command", "stats", 0, <<>>)
    /\ stats_file' = save_stats(stats, stats_file, "ok")
    /\ UNCHANGED <<stats, qa_log, qa_log_file, keyboards, callbacks, msg_count, origin, dispatcher>>
    /\ UNCHANGED pipe_vars

\* TelegramRAGBot.stats_command (/stats)
stats_command ==
    /\ dispatcher = "idle"
    /\ last' = Event("stats_command", "stats", 0, <<>>)
    /\ UNCHANGED <<stats, qa_log, stats_file, qa_log_file, keyboards, callbacks, msg_count, origin, dispatcher>>
    /\ UNCHANGED pipe_vars

\* TelegramRAGBot.save_stats_command (/savestats)
save_stats_command(io) ==
    /\ dispatcher = "idle"
    /\ stats_file' = save_stats(stats, stats_file, io)
    /\ last' = Event("save_stats_command", "stats_saved", 0, <<io_log(io, TRUE)>>)
    /\ UNCHANGED <<stats, qa_log, qa_log_file, keyboards, callbacks, msg_count, origin, dispatcher>>
    /\ UNCHANGED pipe_vars

\* TelegramRAGBot.save_qa_log_command (/saveqa)
save_qa_log_command(io) ==
    /\ dispatcher = "idle"
    /\ qa_log_file' = save_qa_log(qa_log, qa_log_file, io)
    /\ last' = Event("save_qa_log_command", "qa_log_saved", 0, <<io_log(io, TRUE)>>)
    /\ UNCHANGED <<stats, qa_log, stats_file, keyboards, callbacks, msg_count, origin, dispatcher>>
    /\ UNCHANGED pipe_vars

\* a call of TelegramRAGBot.load_stats(self.stats_path)
load_stats_call(io) ==
    /\ stats' = load_stats(stats, stats_file, io)
    /\ last' = Event("load_stats", "none", 0, <<io_log(io, stats_file.st = "complete")>>)
    /\ UNCHANGED <<qa_log, stats_file, qa_log_file, keyboards, callbacks, msg_count, origin, dispatcher>>
    /\ UNCHANGED pipe_vars

\* a call of TelegramRAGBot.load_qa_log(self.qa_log_path); the loaded records
\* carry no trace of the answer messages they were created for
load_qa_log_call(io) ==
    /\ qa_log' = load_qa_log(qa_log, qa_log_file, io)
    /\ origin' = IF io = "ok" /\ qa_log_file.st = "complete"
                 THEN (IF qa_log_file.doc.t = "array"
                       THEN [i \in 1..Len(qa_log') |-> 0] ELSE <<>>)
                 ELSE origin
    /\ last' = Event("load_qa_log", "none", 0, <<io_log(io, qa_log_file.st = "complete")>>)
    /\ UNCHANGED <<stats, stats_file, qa_log_file, keyboards, callbacks, msg_count, dispatcher>>
    /\ UNCHANGED pipe_vars

\* TelegramRAGBot.__init__: the process is started again over the same
\* pipeline and paths; files, sent messages and pending callback queries stay
TelegramRAGBot_init ==
    /\ stats' = InitStats
    /\ qa_log' = <<>>
    /\ origin' = <<>>
    /\ last' = Event("init", "none", 0, <<>>)
    /\ UNCHANGED <<stats_file, qa_log_file, keyboards, callbacks, msg_count, dispatcher>>
    /\ UNCHANGED pipe_vars

----------------------------------------------------------------------------
(* The bot and its ledger *)

\* the pipeline a bot is constructed over, made with chunk_size=1000 and
\* overlap=50: chunks loaded and indexed (main_tg_bot.py), or an empty chunk
\* list loaded and not indexed
InitPipelines ==
    { [chunks |-> Obj(Corpus), bm25 |-> build_index(Obj(Corpus)).value],
      [chunks |-> Obj(<<>>), bm25 |-> NoneObj] }

Init ==
    /\ stats = InitStats
    /\ qa_log = <<>>
    /\ stats_file = Absent
    /\ qa_log_file = Absent
    /\ keyboards = {}
    /\ callbacks = <<>>
    /\ msg_count = 0
    /\ origin = <<>>
    /\ last = Event("init", "none", 0, <<>>)
    /\ dispatcher = "idle"
    /\ pdf = <<>>
    /\ chunk_size = 1000
    /\ overlap = 50
    /\ pages = NoneObj
    /\ \E p \in InitPipelines : chunks = p.chunks /\ bm25 = p.bm25
    /\ split_pc = "idle"
    /\ page_index = 0
    /\ start = 0
    /\ all_chunks = <<>>
    /\ call = NoCall
    /\ returned = Outcome("init", FALSE)

\* the running bot: the handlers setup_handlers registers, and its users
Next ==
    \/ \E q \in Queries, m \in ModelOutputs :
         \E scores \in [1..indexed_size(chunks, bm25) -> ScoreValues] :
            answer_query(q, scores, m)
    \/ \E m \in 1..MaxAnswers : Press(m)
    \/ \E feedback \in {"feedback_yes", "feedback_no"} :
         \E io_stats \in WriteOutcomes, io_qa \in WriteOutcomes :
            feedback_callback(feedback, io_stats, io_qa)
    \/ start_handler
    \/ stats_command
    \/ \E io \in WriteOutcomes : save_stats_command(io)
    \/ \E io \in WriteOutcomes : save_qa_log_command(io)

Spec == Init /\ [][Next]_vars

\* the ledger with its persistence interface: answers, saves, loads, and a
\* bot constructed anew over the same paths
PersistNext ==
    \/ \E q \in Queries, m \in ModelOutputs :
         \E scores \in [1..indexed_size(chunks, bm25) -> ScoreValues] :
            answer_query(q, scores, m)
    \/ \E io \in WriteOutcomes : save_stats_command(io)
    \/ \E io \in WriteOutcomes : save_qa_log_command(io)
    \/ \E io \in ReadOutcomes : load_stats_call(io)
    \/ \E io \in ReadOutcomes : load_qa_log_call(io)
    \/ TelegramRAGBot_init

PersistSpec == Init /\ [][PersistNext]_vars

\* the dispatcher takes the callback query at the head of the queue
HandleCallback ==
    \E feedback \in {"feedback_yes", "feedback_no"} :
       \E io_stats \in WriteOutcomes, io_qa \in WriteOutcomes :
          feedback_callback(feedback, io_stats, io_qa)

\* the running bot with a text-generation model that may never return
LiveNext ==
    \/ \E q \in Queries, m \in ModelOutputs :
         \E scores \in [1..indexed_size(chunks, bm25) -> ScoreValues] :
            answer_query(q, scores, m)
    \/ \E q \in Queries :
         \E scores \in [1..indexed_size(chunks, bm25) -> ScoreValues] :
            answer_query_hangs(q, scores)
    \/ \E m \in 1..MaxAnswers : Press(m)
    \/ HandleCallback

\* the dispatcher thread keeps taking queued updates whenever it is free
LiveSpec == Init /\ [][LiveNext]_vars /\ WF_vars(HandleCallback)

\* JSON documents found at stats_path that are not the counters of a bot, and
\* one that is
StatsArtifacts ==
    << json_dump_stats([total |-> 1, correct |-> 1, incorrect |-> 0]),
       [t |-> "array", a |-> <<json_number(1)>>],
       [t |-> "object", m |-> [total |-> json_number(1)]],
       [t |-> "object", m |-> [total |-> json_string("1"),
                               correct |-> json_number(0), incorrect |-> json_number(0)]] >>

\* JSON documents found at qa_log_path that are not a list of QA records, and
\* one that is
QALogArtifacts ==
    << json_dump_qa_log(<<qa_record(<<"alpha">>, <<"alpha", " ", "beta">>, 3, <<"answer">>)>>),
       json_dump_stats(InitStats),
       [t |-> "array", a |-> <<json_number(1)>>],
       [t |-> "array", a |-> <<[t |-> "object", m |-> [query |-> json_string(<<"alpha">>)]]>>] >>

\* a bot constructed over paths that already hold files
LoadInit ==
    /\ stats = InitStats
    /\ qa_log = <<>>
    /\ \/ stats_file = Absent
       \/ \E i \in DOMAIN StatsArtifacts : stats_file = Complete(StatsArtifacts[i])
    /\ \/ qa_log_file = Absent
       \/ \E i \in DOMAIN QALogArtifacts : qa_log_file = Complete(QALogArtifacts[i])
    /\ keyboards = {}
    /\ callbacks = <<>>
    /\ msg_count = 0
    /\ origin = <<>>
    /\ last = Event("init", "none", 0, <<>>)
    /\ dispatcher = "idle"
    /\ pdf = <<>>
    /\ chunk_size = 1000
    /\ overlap = 50
    /\ pages = NoneObj
    /\ \E p \in InitPipelines : chunks = p.chunks /\ bm25 = p.bm25
    /\ split_pc = "idle"
    /\ page_index = 0
    /\ start = 0
    /\ all_chunks = <<>>
    /\ call = NoCall
    /\ returned = Outcome("init", FALSE)

\* the loads of a bot, and its construction
LoadNext ==
    \/ \E io \in ReadOutcomes : load_stats_call(io)
    \/ \E io \in ReadOutcomes : load_qa_log_call(io)
    \/ TelegramRAGBot_init

LoadSpec == LoadInit /\ [][LoadNext]_vars


----------------------------------------------------------------------------
(* Properties of the feedback ledger *)

\* the step is a run of the handler op
Handled(op) == last'.op = op

\* the record of qa_log created for answer message m, if it is in the log
RecordsOf(m) == {i \in 1..Len(qa_log) : origin[i] = m}

\* C1: a feedback event for an answer whose record is already rated changes
\* neither the counters nor any record, and it is answered with a conflict.
C1_FeedbackOnRatedIsNoop ==
    [][(/\ Handled("feedback_callback")
        /\ \E i \in RecordsOf(Head(callbacks)) : qa_log[i].feedback # None)
       => /\ stats' = stats
          /\ qa_log' = qa_log
          /\ last'.reply = "feedback_conflict"]_vars

\* C2: the rated answers never outnumber the answers:
\* correct + incorrect <= total in every state.
C2_RatedAtMostTotal == stats.correct + stats.incorrect <= stats.total

\* C3: stats.total is the number of records of the QA log in every state,
\* also across saves and loads.
C3_TotalIsLogLength == stats.total = Len(qa_log)

\* C4: the verdict pressed under the message of an answer is written to the
\* record created for that answer, and to no other record.
C4_FeedbackReachesItsRecord ==
    [][Handled("feedback_callback")
       => /\ \A i \in 1..Len(qa_log) :
               qa_log'[i].feedback # qa_log[i].feedback => origin[i] = Head(callbacks)
          /\ \A i \in RecordsOf(Head(callbacks)) :
               qa_log[i].feedback = None => qa_log'[i].feedback # None]_vars

\* the answers a well-formed model output leads to
GoodAnswers ==
    {strip(m.value[1].generated_text) :
        m \in {o \in ModelOutputs : /\ ~o.raised
                                    /\ Len(o.value) > 0
                                    /\ "generated_text" \in DOMAIN o.value[1]}}

\* C5: an answer_query whose retrieval or generation fails replies with the
\* error text, appends no record and leaves the counters alone; a record is
\* only ever logged with the answer of a well-formed model output.
C5_FailedAnswerLeavesLedger ==
    [][Handled("answer_query")
       => /\ last'.reply = "error"
             => /\ stats' = stats
                /\ qa_log' = qa_log
                /\ last'.log \in {<<"retrieval">>, <<"generation">>}
          /\ last'.reply # "error"
             => /\ Len(qa_log') = Len(qa_log) + 1
                /\ qa_log'[Len(qa_log')].generated_answer \in GoodAnswers]_vars

\* C5 witness: generation failed after an earlier answer had been logged
C5_Witness ==
    /\ last.op = "answer_query"
    /\ last.log = <<"generation">>
    /\ last.reply = "error"
    /\ stats.total = 1
    /\ Len(qa_log) = 1

\* C6: in every step every record stays in the log, and its feedback either
\* stays as it is or goes from None to "yes" or "no".
C6_FeedbackSetOnce ==
    [][\A i \in 1..Len(qa_log) :
         /\ i <= Len(qa_log')
         /\ \/ qa_log'[i].feedback = qa_log[i].feedback
            \/ /\ qa_log[i].feedback = None
               /\ qa_log'[i].feedback \in {"yes", "no"}]_vars

\* C6 witness: a second feedback event has been handled on a rated record
C6_Witness ==
    /\ last.op = "feedback_callback"
    /\ Len(qa_log) = 1
    /\ qa_log[1].feedback # None
    /\ stats.correct + stats.incorrect = 2

\* C7: a feedback application leaves the two files both holding the state
\* after the feedback, or both as they were.
C7_FeedbackWritesBothOrNeither ==
    [][Handled("feedback_callback")
       => \/ /\ stats_file' = Complete(json_dump_stats(stats'))
             /\ qa_log_file' = Complete(json_dump_qa_log(qa_log'))
          \/ /\ stats_file' = stats_file
             /\ qa_log_file' = qa_log_file]_vars

\* C8: whenever a handler has just saved the counters or the log, loading the
\* file into a ledger fresh from construction gives back the saved counters,
\* respectively the saved records in their order.
C8_SaveThenLoadIsIdentity ==
    /\ (last.op = "save_stats_command" /\ last.log = <<"info">>)
       => load_stats(InitStats, stats_file, "ok") = stats
    /\ (last.op = "save_qa_log_command" /\ last.log = <<"info">>)
       => load_qa_log(<<>>, qa_log_file, "ok") = qa_log
    /\ (last.op = "feedback_callback" /\ last.log = <<"info", "info">>)
       => /\ load_stats(InitStats, stats_file, "ok") = stats
          /\ load_qa_log(<<>>, qa_log_file, "ok") = qa_log

\* C8 witness: a feedback saved both files of a ledger with a rated record
C8_Witness ==
    /\ last.op = "feedback_callback"
    /\ last.log = <<"info", "info">>
    /\ Len(qa_log) = 2
    /\ qa_log[2].feedback # None

\* the handlers and calls that write or read a durable artifact on request
PersistenceOps == {"save_stats_command", "save_qa_log_command", "load_stats", "load_qa_log"}

\* what a caller gets from a persistence operation that worked: the replies of
\* /savestats and /saveqa, and the plain return of a load
SuccessReplies == {"stats_saved", "qa_log_saved", "none"}

\* C14: a save or load that fails tells its caller so, with something a
\* successful one never gives, and it leaves the counters and the log in
\* memory as they were.
C14_PersistenceFailureReported ==
    [][(last'.op \in PersistenceOps /\ last'.log = <<"error">>)
       => /\ last'.reply \notin SuccessReplies
          /\ stats' = stats
          /\ qa_log' = qa_log]_vars

\* the document has the shape of the counters
IsStatsDoc(doc) ==
    /\ doc.t = "object"
    /\ DOMAIN doc.m = {"total", "correct", "incorrect"}
    /\ \A k \in DOMAIN doc.m : doc.m[k].t = "number"

\* the document has the shape of a list of QA records
IsQALogDoc(doc) ==
    /\ doc.t = "array"
    /\ \A i \in DOMAIN doc.a :
          /\ doc.a[i].t = "object"
          /\ DOMAIN doc.a[i].m = {"query", "retrieval_context", "retrieved_page",
                                  "generated_answer", "feedback"}

\* C15: a load of a file whose document has not the expected shape fails (it
\* is logged as an error, not as a load) and leaves the state in memory as it
\* was.
C15_WrongShapeIsRejected ==
    [][/\ (Handled("load_stats") /\ last'.log = <<"info">>)
          => IsStatsDoc(stats_file.doc)
       /\ (Handled("load_qa_log") /\ last'.log = <<"info">>)
          => IsQALogDoc(qa_log_file.doc)
       /\ (Handled("load_stats") /\ last'.log = <<"error">>) => stats' = stats
       /\ (Handled("load_qa_log") /\ last'.log = <<"error">>) => qa_log' = qa_log]_vars

\* C16: over an empty chunk list answer_query gets an empty search result
\* without an error, and it still calls the text-generation model, with a
\* prompt that holds the "I don't know" instruction and an empty context.
C16_EmptyCorpusStillGenerates ==
    [][(Handled("answer_query") /\ chunks.v = <<>>)
       => /\ last'.log # <<"retrieval">>
          /\ ~last'.prompt.is_none
          /\ last'.prompt.v.context = <<>>
          /\ last'.prompt.v.instruction = prompt(<<>>, <<>>).instruction]_vars

\* C18: an answered query appends one record without feedback at the end of
\* the log, adds one to total, leaves correct, incorrect and the earlier
\* records alone, and hands out with the answer an identifier of the new
\* record: the callback data of two answers in a row are not the same.
C18_AnswerAppendsAndYieldsId ==
    [][(Handled("answer_query") /\ last'.reply = "answer")
       => /\ Len(qa_log') = Len(qa_log) + 1
          /\ SubSeq(qa_log', 1, Len(qa_log)) = qa_log
          /\ qa_log'[Len(qa_log')].feedback = None
          /\ stats' = [stats EXCEPT !.total = @ + 1]
          /\ (last.op = "answer_query" /\ last.reply = "answer")
                => last'.reply_markup # last.reply_markup]_vars

\* C19: the file of the counters changes only in /savestats and in a feedback
\* application, the file of the log only in /saveqa and in a feedback
\* application: answers and all other handlers leave both files alone.
C19_OnlySavesAndFeedbackWrite ==
    [][/\ stats_file' # stats_file
          => last'.op \in {"save_stats_command", "feedback_callback"}
       /\ qa_log_file' # qa_log_file
          => last'.op \in {"save_qa_log_command", "feedback_callback"}]_vars

\* C19 witness: a query was answered after both files had been written, and
\* the files still hold the counters and the log from before the answer
C19_Witness ==
    /\ last.op = "answer_query"
    /\ last.reply = "answer"
    /\ stats_file.st = "complete"
    /\ qa_log_file.st = "complete"
    /\ stats_file # Complete(json_dump_stats(stats))
    /\ qa_log_file # Complete(json_dump_qa_log(qa_log))

\* C20: a call of the text-generation model that never returns is cut off, so
\* the callback queries in flight while a handler is inside such a call are
\* nevertheless handled in the end.
C20_HungCallDoesNotBlock ==
    (dispatcher = "hung" /\ Len(callbacks) > 0) ~> (Len(callbacks) = 0)


----------------------------------------------------------------------------
(* Ingestion: the extractors and split_pages of PDFRAGPipeline *)

\* len(text): the characters of a text
RECURSIVE text_len(_)
text_len(text) == IF text = <<>> THEN 0 ELSE Len(Head(text)) + text_len(Tail(text))

\* " ".join(words)
RECURSIVE join(_)
join(words) ==
    IF Len(words) <= 1 THEN words
    ELSE <<Head(words), " ">> \o join(Tail(words))

\* a variant of slice that takes everything from a to the end
slice_to_the_end(seq, a, b) ==
    LET n == Len(seq)
        clip(i) == IF i < 0 THEN (IF n + i < 0 THEN 0 ELSE n + i)
                   ELSE (IF i > n THEN n ELSE i)
    IN SubSeq(seq, clip(a) + 1, n)

\* seq[a:b]: a negative bound counts from the end, bounds are clipped
slice(seq, a, b) ==
    LET n == Len(seq)
        clip(i) == IF i < 0 THEN (IF n + i < 0 THEN 0 ELSE n + i)
                   ELSE (IF i > n THEN n ELSE i)
    IN SubSeq(seq, clip(a) + 1, clip(b))

\* re.split(r'\f+', full_text): the pieces between maximal runs of form feeds
RECURSIVE split_form_feeds(_, _, _)
split_form_feeds(text, piece, in_run) ==
    IF text = <<>> THEN <<piece>>
    ELSE IF Head(text) = "\f"
         THEN IF in_run THEN split_form_feeds(Tail(text), <<>>, TRUE)
              ELSE <<piece>> \o split_form_feeds(Tail(text), <<>>, TRUE)
         ELSE split_form_feeds(Tail(text), Append(piece, Head(text)), FALSE)

\* pdfminer's extract_text: the text of every page, each followed by a form feed
RECURSIVE pdfminer_extract_text(_)
pdfminer_extract_text(doc) ==
    IF doc = <<>> THEN <<>>
    ELSE Head(doc) \o <<"\f">> \o pdfminer_extract_text(Tail(doc))

\* [{"page": i + 1, "text": strip(text)} for i, text in enumerate(texts) if text]
RECURSIVE pages_with_text(_, _)
pages_with_text(texts, i) ==
    IF texts = <<>> THEN <<>>
    ELSE (IF Head(texts) # <<>>
          THEN <<[page |-> i + 1, text |-> strip(Head(texts))]>> ELSE <<>>)
         \o pages_with_text(Tail(texts), i + 1)

\* [{"page": i + 1, "text": t} for i, text in enumerate(texts) if (t := strip(text))]
RECURSIVE pages_with_stripped_text(_, _)
pages_with_stripped_text(texts, i) ==
    IF texts = <<>> THEN <<>>
    ELSE (IF strip(Head(texts)) # <<>>
          THEN <<[page |-> i + 1, text |-> strip(Head(texts))]>> ELSE <<>>)
         \o pages_with_stripped_text(Tail(texts), i + 1)

\* the list extract_pages builds from pdfplumber's page texts
extract_pages_result(doc) == pages_with_text(doc, 0)

\* the list extract_pages_pdfminer builds
extract_pages_pdfminer_result(doc) ==
    pages_with_stripped_text(
        split_form_feeds(pdfminer_extract_text(doc), <<>>, FALSE), 0)

\* the list extract_pages_pypdf2 builds from PyPDF2's page texts
extract_pages_pypdf2_result(doc) == pages_with_text(doc, 0)

\* PDFRAGPipeline.extract_pages
extract_pages ==
    /\ split_pc = "idle"
    /\ pages' = Obj(extract_pages_result(pdf))
    /\ returned' = [op |-> "extract_pages", raised |-> FALSE, value |-> pages'.v]
    /\ UNCHANGED <<pdf, chunk_size, overlap, chunks, bm25, split_pc, page_index, start, all_chunks, call>>
    /\ UNCHANGED ledger_vars

\* PDFRAGPipeline.extract_pages_pdfminer
extract_pages_pdfminer ==
    /\ split_pc = "idle"
    /\ pages' = Obj(extract_pages_pdfminer_result(pdf))
    /\ returned' = [op |-> "extract_pages_pdfminer", raised |-> FALSE, value |-> pages'.v]
    /\ UNCHANGED <<pdf, chunk_size, overlap, chunks, bm25, split_pc, page_index, start, all_chunks, call>>
    /\ UNCHANGED ledger_vars

\* PDFRAGPipeline.extract_pages_pypdf2
extract_pages_pypdf2 ==
    /\ split_pc = "idle"
    /\ pages' = Obj(extract_pages_pypdf2_result(pdf))
    /\ returned' = [op |-> "extract_pages_pypdf2", raised |-> FALSE, value |-> pages'.v]
    /\ UNCHANGED <<pdf, chunk_size, overlap, chunks, bm25, split_pc, page_index, start, all_chunks, call>>
    /\ UNCHANGED ledger_vars

\* PDFRAGPipeline.load_chunks(chunks_path): stored is the chunk list pickled at
\* chunks_path; self.chunks is assigned only if the file was read
load_chunks(stored, io) ==
    /\ split_pc = "idle"
    /\ IF io = "ok"
       THEN /\ chunks' = Obj(stored)
            /\ returned' = [op |-> "load_chunks", raised |-> FALSE, value |-> stored]
       ELSE /\ chunks' = chunks
            /\ returned' = Outcome("load_chunks", TRUE)
    /\ UNCHANGED <<pdf, chunk_size, overlap, pages, bm25, split_pc, page_index, start, all_chunks, call>>
    /\ UNCHANGED ledger_vars

\* the head of split_pages: it extracts the pages if there are none yet and
\* enters the loop over the pages with an empty all_chunks
split_pages_enter ==
    /\ pages' = IF pages.is_none THEN Obj(extract_pages_result(pdf)) ELSE pages
    /\ all_chunks' = <<>>
    /\ page_index' = 1
    /\ start' = 0
    /\ split_pc' = "loop"

\* split_pages is called
split_pages_call ==
    /\ split_pc = "idle"
    /\ call' = [op |-> "split_pages"]
    /\ split_pages_enter
    /\ UNCHANGED <<pdf, chunk_size, overlap, chunks, bm25, returned>>
    /\ UNCHANGED ledger_vars

\* build_index is called: it runs split_pages first if there are no chunks yet
build_index_call ==
    /\ split_pc = "idle"
    /\ call' = [op |-> "build_index"]
    /\ IF chunks.is_none
       THEN split_pages_enter
       ELSE /\ split_pc' = "build_index"
            /\ UNCHANGED <<pages, all_chunks, page_index, start>>
    /\ UNCHANGED <<pdf, chunk_size, overlap, chunks, bm25, returned>>
    /\ UNCHANGED ledger_vars

\* search_query(query, top_k) is called: it runs build_index first if there is
\* no index yet
search_query_call(query, top_k) ==
    /\ split_pc = "idle"
    /\ call' = [op |-> "search_query", query |-> query, top_k |-> top_k]
    /\ IF ~bm25.is_none
       THEN /\ split_pc' = "search_query"
            /\ UNCHANGED <<pages, all_chunks, page_index, start>>
       ELSE IF ~chunks.is_none
       THEN /\ split_pc' = "build_index"
            /\ UNCHANGED <<pages, all_chunks, page_index, start>>
       ELSE split_pages_enter
    /\ UNCHANGED <<pdf, chunk_size, overlap, chunks, bm25, returned>>
    /\ UNCHANGED ledger_vars

\* the words of the page the for loop of split_pages is at
words == split(pages.v[page_index].text)

\* a variant that puts the new chunk in front of the collected ones
append_chunk_in_front(self_all_chunks, page, chunk_text) ==
    IF text_len(chunk_text) > 20
    THEN <<[page |-> page.page, chunk |-> chunk_text]>> \o self_all_chunks
    ELSE self_all_chunks

\* if len(chunk_text) > 20: all_chunks.append({"page": page["page"], "chunk": chunk_text})
append_chunk(self_all_chunks, page, chunk_text) ==
    IF text_len(chunk_text) > 20
    THEN Append(self_all_chunks, [page |-> page.page, chunk |-> chunk_text])
    ELSE self_all_chunks

\* a variant that advances by whole windows, without the overlap
next_start_without_overlap(self_start, self_chunk_size, self_overlap) ==
    self_start + self_chunk_size

\* a variant that advances only while a full window is left, and then stays
next_start_full_windows_only(self_start, self_chunk_size, self_overlap) ==
    IF self_start < self_chunk_size THEN self_start + (self_chunk_size - self_overlap)
    ELSE self_start

\* start += (self.chunk_size - self.overlap)
next_start(self_start, self_chunk_size, self_overlap) ==
    self_start + (self_chunk_size - self_overlap)

\* one pass of the while loop of split_pages: a window of chunk_size words
\* from start, kept if its text has more than 20 characters
split_pages_window ==
    /\ split_pc = "loop"
    /\ page_index <= Len(pages.v)
    /\ start < Len(words)
    /\ Len(all_chunks) < MaxChunks
    /\ start > -MaxBack
    /\ LET chunk_words == slice(words, start, start + chunk_size)
           chunk_text == join(chunk_words)
       IN all_chunks' = append_chunk(all_chunks, pages.v[page_index], chunk_text)
    /\ start' = next_start(start, chunk_size, overlap)
    /\ UNCHANGED <<pdf, chunk_size, overlap, pages, chunks, bm25, split_pc, page_index, call, returned>>
    /\ UNCHANGED ledger_vars

\* the while loop of split_pages ends: the for loop takes the next page
split_pages_next_page ==
    /\ split_pc = "loop"
    /\ page_index <= Len(pages.v)
    /\ ~(start < Len(words))
    /\ page_index' = page_index + 1
    /\ start' = 0
    /\ UNCHANGED <<pdf, chunk_size, overlap, pages, chunks, bm25, split_pc, all_chunks, call, returned>>
    /\ UNCHANGED ledger_vars

\* the for loop of split_pages ends: self.chunks = all_chunks, and the call
\* returns to the user or to build_index
split_pages_return ==
    /\ split_pc = "loop"
    /\ page_index > Len(pages.v)
    /\ chunks' = Obj(all_chunks)
    /\ page_index' = 0
    /\ start' = 0
    /\ all_chunks' = <<>>
    /\ IF call.op = "split_pages"
       THEN /\ split_pc' = "idle"
            /\ call' = NoCall
            /\ returned' = [op |-> "split_pages", raised |-> FALSE, value |-> all_chunks]
       ELSE /\ split_pc' = "build_index"
            /\ UNCHANGED <<call, returned>>
    /\ UNCHANGED <<pdf, chunk_size, overlap, pages, bm25>>
    /\ UNCHANGED ledger_vars

\* build_index once self.chunks is set: the index is built, and the call
\* returns to the user or to search_query; an exception of BM25Okapi leaves
\* every frame
build_index_body ==
    /\ split_pc = "build_index"
    /\ LET built == build_index(chunks)
       IN IF built.raised
          THEN /\ bm25' = bm25
               /\ split_pc' = "idle"
               /\ call' = NoCall
               /\ returned' = Outcome(call.op, TRUE)
          ELSE /\ bm25' = built.value
               /\ IF call.op = "build_index"
                  THEN /\ split_pc' = "idle"
                       /\ call' = NoCall
                       /\ returned' = Outcome("build_index", FALSE)
                  ELSE /\ split_pc' = "search_query"
                       /\ UNCHANGED <<call, returned>>
    /\ UNCHANGED <<pdf, chunk_size, overlap, pages, chunks, page_index, start, all_chunks>>
    /\ UNCHANGED ledger_vars

\* search_query once self.bm25 is set: the chunks are scored and ranked
search_query_body(scores) ==
    /\ split_pc = "search_query"
    /\ LET sr == search_query(chunks, bm25, call.query, call.top_k, scores)
       IN returned' = IF sr.raised
                      THEN [op |-> "search_query", raised |-> TRUE, top_k |-> call.top_k]
                      ELSE [op |-> "search_query", raised |-> FALSE, top_k |-> call.top_k,
                            scores |-> scores, top_indices |-> sr.top_indices,
                            value |-> sr.value]
    /\ split_pc' = "idle"
    /\ call' = NoCall
    /\ UNCHANGED <<pdf, chunk_size, overlap, pages, chunks, bm25, page_index, start, all_chunks>>
    /\ UNCHANGED ledger_vars

\* what the extraction library gives for physical page i: nothing (a blank
\* page), white space only, or a text of two words
PageTexts(i) ==
    LET w == <<"page-one-a", "page-two-a", "page-three", "page-four-">>
        v == <<"page-one-bb", "page-two-bb", "page-three-", "page-four-b">>
    IN { <<>>, <<" ">>, <<" ", w[i], " ", v[i], "\n">> }

\* the documents
Docs ==
    UNION { {d \in [1..n -> UNION {PageTexts(i) : i \in 1..n}] :
                \A i \in 1..n : d[i] \in PageTexts(i)} : n \in 1..MaxPages }

\* the chunk lists pickled at a chunks_path
StoredChunks ==
    { <<>>,
      Corpus,
      <<[page |-> 1, chunk |-> <<"gamma", " ", "delta">>],
        [page |-> 3, chunk |-> <<"alpha", " ", "beta">>]>> }

\* PDFRAGPipeline.__init__(pdf_path, chunk_size, overlap): any numbers are taken
PipeInit ==
    /\ stats = InitStats
    /\ qa_log = <<>>
    /\ stats_file = Absent
    /\ qa_log_file = Absent
    /\ keyboards = {}
    /\ callbacks = <<>>
    /\ msg_count = 0
    /\ origin = <<>>
    /\ last = Event("init", "none", 0, <<>>)
    /\ dispatcher = "idle"
    /\ pdf \in Docs
    /\ chunk_size \in 1..MaxChunkSize
    /\ overlap \in -1..MaxChunkSize
    /\ pages = NoneObj
    /\ chunks = NoneObj
    /\ bm25 = NoneObj
    /\ split_pc = "idle"
    /\ page_index = 0
    /\ start = 0
    /\ all_chunks = <<>>
    /\ call = NoCall
    /\ returned = Outcome("init", FALSE)

PipeNext ==
    \/ extract_pages
    \/ extract_pages_pdfminer
    \/ extract_pages_pypdf2
    \/ split_pages_call
    \/ split_pages_window
    \/ split_pages_next_page
    \/ split_pages_return

PipeSpec == PipeInit /\ [][PipeNext]_vars

\* the documents the chunker is followed over: a first page of five words and
\* a second of four; the same with a long last word on the first page; a
\* blank page followed by a page of two words, the second one long
ChunkDocs ==
    { << <<"word-01", " ", "word-02", " ", "word-03", "\n", "word-04", " ", " ", "word-05">>,
         <<"word-06", " ", "word-07", " ", "word-08", " ", "word-09", "\n">> >>,
      << <<"word-01", " ", "word-02", " ", "word-03", "\n", "word-04", " ",
           "word-05-with-long-tail">>,
         <<"word-06", " ", "word-07", " ", "word-08", " ", "word-09", "\n">> >>,
      << <<>>,
         <<"word-10", " ", "word-11-with-long-tail">> >> }

\* PDFRAGPipeline(pdf_path, chunk_size, overlap) over one of these documents
ChunkInit ==
    /\ stats = InitStats
    /\ qa_log = <<>>
    /\ stats_file = Absent
    /\ qa_log_file = Absent
    /\ keyboards = {}
    /\ callbacks = <<>>
    /\ msg_count = 0
    /\ origin = <<>>
    /\ last = Event("init", "none", 0, <<>>)
    /\ dispatcher = "idle"
    /\ pdf \in ChunkDocs
    /\ chunk_size \in 1..MaxChunkSize
    /\ overlap \in -1..MaxChunkSize
    /\ pages = NoneObj
    /\ chunks = NoneObj
    /\ bm25 = NoneObj
    /\ split_pc = "idle"
    /\ page_index = 0
    /\ start = 0
    /\ all_chunks = <<>>
    /\ call = NoCall
    /\ returned = Outcome("init", FALSE)

\* split_pages, called any number of times, and its steps
ChunkNext ==
    \/ split_pages_call
    \/ split_pages_window
    \/ split_pages_next_page
    \/ split_pages_return

ChunkSpec == ChunkInit /\ [][ChunkNext]_vars

\* a call of split_pages keeps running: the interpreter takes the next step
\* of the loops whenever there is one
ChunkLiveSpec ==
    /\ ChunkInit
    /\ [][ChunkNext]_vars
    /\ WF_vars(split_pages_window)
    /\ WF_vars(split_pages_next_page)
    /\ WF_vars(split_pages_return)

\* the documents a retrieval pipeline is followed over: every page is blank,
\* holds white space only, or holds a text that makes one chunk
IndexDocs == {d \in Docs : Len(d) = MaxPages - 1}

\* PDFRAGPipeline(pdf_path, chunk_size=2, overlap=1) over one of these documents
IndexInit ==
    /\ stats = InitStats
    /\ qa_log = <<>>
    /\ stats_file = Absent
    /\ qa_log_file = Absent
    /\ keyboards = {}
    /\ callbacks = <<>>
    /\ msg_count = 0
    /\ origin = <<>>
    /\ last = Event("init", "none", 0, <<>>)
    /\ dispatcher = "idle"
    /\ pdf \in IndexDocs
    /\ chunk_size = 2
    /\ overlap = 1
    /\ pages = NoneObj
    /\ chunks = NoneObj
    /\ bm25 = NoneObj
    /\ split_pc = "idle"
    /\ page_index = 0
    /\ start = 0
    /\ all_chunks = <<>>
    /\ call = NoCall
    /\ returned = Outcome("init", FALSE)

\* the calls a user of the retrieval pipeline makes, and their steps
IndexNext ==
    \/ extract_pages
    \/ \E stored \in StoredChunks, io \in ReadOutcomes : load_chunks(stored, io)
    \/ split_pages_call
    \/ build_index_call
    \/ \E q \in Queries, top_k \in 0..MaxTopK : search_query_call(q, top_k)
    \/ split_pages_window
    \/ split_pages_next_page
    \/ split_pages_return
    \/ build_index_body
    \/ \E scores \in [1..corpus_size(bm25) -> ScoreValues] : search_query_body(scores)

IndexSpec == IndexInit /\ [][IndexNext]_vars

----------------------------------------------------------------------------
(* Properties of ingestion *)

\* 0 <= overlap < chunk_size
ValidConfig == 0 <= overlap /\ overlap < chunk_size

\* C9: under a configuration that violates 0 <= overlap < chunk_size the
\* chunking is refused: split_pages collects no chunk and stores no chunk in
\* the chunk list.
C9_InvalidConfigChunksNothing ==
    ~ValidConfig => /\ all_chunks = <<>>
                    /\ (chunks.is_none \/ chunks.v = <<>>)

\* C10: every extracted page carries the number of the physical page its
\* text comes from.
C10_PagesKeepPhysicalNumber ==
    ~pages.is_none =>
        \A k \in 1..Len(pages.v) :
            /\ pages.v[k].page \in 1..Len(pdf)
            /\ pages.v[k].text = strip(pdf[pages.v[k].page])

----------------------------------------------------------------------------
(* Properties of retrieval *)

\* the last call of the pipeline was a search_query that returned
Searched == returned.op = "search_query" /\ ~returned.raised

\* C11: in every result of search_query the scores do not increase from one
\* position to the next, of two chunks with the same score the one with the
\* lower chunk index comes first, and the result holds the chunks at the
\* ranked indices.
C11_RankedByScoreThenIndex ==
    Searched =>
        /\ \A k \in 1..Len(returned.top_indices), l \in 1..Len(returned.top_indices) :
              k < l =>
                 LET i == returned.top_indices[k]
                     j == returned.top_indices[l]
                 IN \/ returned.scores[i] > returned.scores[j]
                    \/ returned.scores[i] = returned.scores[j] /\ i < j
        /\ Len(returned.value) = Len(returned.top_indices)
        /\ \A k \in 1..Len(returned.value) :
              returned.value[k] = chunks.v[returned.top_indices[k]]

\* C11 witness: a search returned two chunks of the same score
C11_Witness ==
    /\ Searched
    /\ Len(returned.top_indices) = 2
    /\ returned.scores[1] = returned.scores[2]

min(a, b) == IF a < b THEN a ELSE b

\* C12: every search_query call with top_k >= 0 returns, and it returns
\* min(top_k, number of chunks) results.
C12_ReturnsMinTopKChunks ==
    returned.op = "search_query" =>
        /\ ~returned.raised
        /\ Len(returned.value) = min(returned.top_k, Len(chunks.v))

\* the index self.bm25 is built over the chunk list self.chunks
IndexOverChunks ==
    /\ ~bm25.is_none
    /\ ~chunks.is_none
    /\ bm25.v.corpus = [i \in 1..Len(chunks.v) |-> split(chunks.v[i].chunk)]

\* C13: whenever a search_query call has been served from an index, that index
\* is one built over the chunk list as it is at the time of the search.
C13_SearchUsesCurrentIndex ==
    (returned.op = "search_query" /\ ~bm25.is_none) => IndexOverChunks

\* every page of the document is blank or holds white space only
AllPagesBlank == \A i \in 1..Len(pdf) : strip(pdf[i]) = <<>>

\* C17: over a document whose pages all yield no text, a call that extracts
\* the pages raises, and the pipeline holds no index other than one over a
\* chunk list loaded from a file.
C17_BlankDocumentIsIngestionError ==
    AllPagesBlank =>
        /\ returned.op \in {"extract_pages", "extract_pages_pdfminer", "extract_pages_pypdf2"}
              => returned.raised
        /\ \/ bm25.is_none
           \/ \E stored \in StoredChunks :
                 bm25 = build_index(Obj(stored)).value


----------------------------------------------------------------------------
(* Properties of the chunker *)

\* the elements of a set of numbers in increasing order
RECURSIVE Ascending(_)
Ascending(S) ==
    IF S = {} THEN <<>>
    ELSE LET m == CHOOSE x \in S : \A y \in S : x <= y
         IN <<m>> \o Ascending(S \ {m})

\* the offsets 0, W-O, 2(W-O), ... below the word count n
WindowStarts(n, W, O) == {s \in 0..(n - 1) : s % (W - O) = 0}

\* the W words of ws from word offset s (fewer at the end), joined by single spaces
WindowText(ws, s, W) == join(SubSeq(ws, s + 1, min(s + W, Len(ws))))

\* the chunks a page is to give: its windows of more than 20 characters, in
\* increasing offset, each tagged with the number of the page
ExpectedPageChunks(page, W, O) ==
    LET ws == split(page.text)
        kept == {s \in WindowStarts(Len(ws), W, O) : text_len(WindowText(ws, s, W)) > 20}
        order == Ascending(kept)
    IN [k \in 1..Len(order) |-> [page |-> page.page, chunk |-> WindowText(ws, order[k], W)]]

RECURSIVE ExpectedChunks(_, _, _)
ExpectedChunks(ps, W, O) ==
    IF ps = <<>> THEN <<>>
    ELSE ExpectedPageChunks(Head(ps), W, O) \o ExpectedChunks(Tail(ps), W, O)

ScenarioC ==
    /\ Len(pdf) = 2
    /\ Len(split(pdf[1])) = 5
    /\ Len(split(pdf[2])) = 4
    /\ chunk_size = 3
    /\ overlap = 1

\* C22 as stated: in the two-page scenario the windows of page 1 start at the
\* word offsets 0 and 2 and at no other offset.
C22_WindowsAtZeroAndTwoOnly ==
    [][(ScenarioC /\ split_pages_window /\ page_index = 1) => start \in {0, 2}]_vars

\* C22 amended: in the two-page scenario the windows of page 1 start at the
\* word offsets 0, 2 and 4, all three are taken, and the window at 4 is the
\* last word alone, which becomes a chunk only if it has more than 20
\* characters.
C22_WindowsAtZeroTwoFour ==
    [][ScenarioC =>
         /\ (split_pages_window /\ page_index = 1) =>
               /\ start \in {0, 2, 4}
               /\ start = 4 =>
                     all_chunks' = IF Len(words[5]) > 20
                                   THEN Append(all_chunks, [page |-> 1, chunk |-> <<words[5]>>])
                                   ELSE all_chunks
         /\ (split_pages_next_page /\ page_index = 1) => start = 6]_vars

\* C22 witness: in the two-page scenario the loop has left page 1 behind with
\* the chunks of the windows at 0 and 2, the last word having been dropped
C22_Witness ==
    /\ ScenarioC
    /\ split_pc = "loop"
    /\ page_index = 1
    /\ start = 6
    /\ Len(all_chunks) = 2

\* C23: under a valid configuration a page with fewer words than chunk_size
\* gives at most one chunk, and that chunk is the whole text of the page.
C23_ShortPageIsOneChunk ==
    (returned.op = "split_pages" /\ ValidConfig) =>
        \A k \in 1..Len(pages.v) :
            Len(split(pages.v[k].text)) < chunk_size =>
                LET own == SelectSeq(returned.value, LAMBDA c : c.page = pages.v[k].page)
                IN /\ Len(own) <= 1
                   /\ \A i \in 1..Len(own) : own[i].chunk = join(split(pages.v[k].text))

\* C24: split_pages takes the pages in their order and the windows of a page
\* in increasing offset, a chunk is put behind all chunks collected before it,
\* under the number of the page the loop is at, and the list stored in
\* self.chunks, whose positions search_query ranks by, is that sequence.
C24_ChunksInPageAndWindowOrder ==
    [][/\ split_pages_window =>
             /\ \/ all_chunks' = all_chunks
                \/ /\ Len(all_chunks') = Len(all_chunks) + 1
                   /\ SubSeq(all_chunks', 1, Len(all_chunks)) = all_chunks
                   /\ all_chunks'[Len(all_chunks')].page = pages.v[page_index].page
             /\ ValidConfig => start' > start
             /\ page_index' = page_index
       /\ split_pages_next_page =>
             /\ page_index' = page_index + 1
             /\ all_chunks' = all_chunks
       /\ split_pages_return =>
             /\ chunks'.v = all_chunks
             /\ \A i \in 1..Len(all_chunks), j \in 1..Len(all_chunks) :
                   i < j => all_chunks[i].page <= all_chunks[j].page]_vars

\* C24 witness: a split returned two chunks of page 1 followed by chunks of page 2
C24_Witness ==
    /\ returned.op = "split_pages"
    /\ Len(returned.value) >= 4
    /\ returned.value[1].page = 1
    /\ returned.value[2].page = 1
    /\ returned.value[Len(returned.value)].page = 2

\* C25: no page an extractor has emitted holds an empty text or white space
\* only.
C25_NoBlankPageEmitted ==
    ~pages.is_none =>
        \A k \in 1..Len(pages.v) : strip(pages.v[k].text) # <<>>

\* C26: whenever chunk_size - overlap >= 1, every window taken moves start
\* strictly forward from below the word count of the page, and a running
\* split_pages returns.
C26_SplitPagesTerminates ==
    /\ [][(split_pages_window /\ chunk_size - overlap >= 1)
          => (start < Len(words) /\ start' > start)]_vars
    /\ (split_pc = "loop" /\ chunk_size - overlap >= 1) ~> (split_pc = "idle")

\* C26 witness: a split that advances by one word per window has returned
\* after more than five windows
C26_Witness ==
    /\ returned.op = "split_pages"
    /\ chunk_size - overlap = 1
    /\ chunk_size > 1
    /\ Len(returned.value) >= 5


====
